---- MODULE Spec2Model ----
(***************************************************************************)
(* Model of the PixArt RF OTA update, plugins/pixart-rf/fu-pxi-device.c.   *)
(*                                                                         *)
(* One behaviour is one call of fu_pxi_device_write_firmware.  Every step  *)
(* is one blocking transport operation (pwrite, pread, set-feature,        *)
(* get-feature) together with the local code that runs until the next      *)
(* transport operation.  The device is the environment: whether an         *)
(* operation succeeds, and what a read returns, is chosen with \E.         *)
(*                                                                         *)
(* log, acked, reported_offset and progress are history variables: the    *)
(* transport operations issued so far, the objects for which write_chunk   *)
(* returned TRUE, the resume offset as the Init-New response gave it (-1    *)
(* before it), and the last fu_device_set_progress_full call.              *)
(*                                                                         *)
(* The firmware has a default image and a version string that fits the     *)
(* 10 bytes of the version tag; the device reports an mtu_size of 1 or     *)
(* more.                                                                   *)
(*                                                                         *)
(* A second specification, SpecChecksum, runs the loop of                  *)
(* fu_pxi_device_calculate_checksum iteration by iteration, on buffers     *)
(* long enough for the 16-bit sum to wrap.                                 *)
(***************************************************************************)
EXTENDS Integers, Sequences, FiniteSets

(* ---- program constants ---- *)
FU_PXI_DEVICE_CMD_FW_OTA_INIT == 16
FU_PXI_DEVICE_CMD_FW_WRITE == 23
FU_PXI_DEVICE_CMD_FW_UPGRADE == 24
FU_PXI_DEVICE_CMD_FW_MCU_RESET == 34
FU_PXI_DEVICE_CMD_FW_OBJECT_CREATE == 37
FU_PXI_DEVICE_CMD_FW_OTA_INIT_NEW == 39
OTA_SPEC_CHECK_OK == 1
OTA_MAIN_FW == 0
\* guint8 fw_version[10]
FwVersionLen == 10
U16 == 65536

(* ---- bounds ---- *)
\* The object cap.  The source's FU_PXI_DEVICE_OBJECT_SIZE_MAX is 4096; the
\* model scales it down so that images of a few bytes have several objects.
ObjectSizeMax == 3
\* Images have 0..MaxLen bytes.
MaxLen == 4

\* The byte values images are made of.
Bytes == {0, 1}
Images == UNION {[1..n -> Bytes] : n \in 0..MaxLen}
\* What a device may report in the Init-New response: a resume offset up to
\* one more than the most objects an image has, an mtu_size smaller than an
\* object, a prn_threshold from 0 (and 1: a notification after every packet)
\* up to values that only the end of an object reaches.
MaxOffset == ((MaxLen + ObjectSizeMax - 1) \div ObjectSizeMax) + 1
MaxMtu == ObjectSizeMax - 1
MaxPrn == ObjectSizeMax - 1
\* the smallest and the largest mtu_size; the thresholds 0 and 1 and the
\* largest one
MtuSizes == {1, MaxMtu}
PrnThresholds == {0, 1, MaxPrn}
\* 16-bit values a device may report as a checksum: every checksum an image
\* of the model, or a part of one, can have.
DeviceChecksums == 0..MaxLen
\* The largest value of a byte (guint8).
ByteMax == 255
\* Buffers of MaxRun bytes of the value ByteMax: MaxRun - 1 of them sum up to
\* the largest 16-bit value, MaxRun of them to more.
MaxRun == 258
\* Version strings: the empty one and one of MaxVersionLen characters '1';
\* both fit the version tag of the commands.
MaxVersionLen == 2
VersionChars == {49}
Versions == UNION {[1..n -> VersionChars] : n \in {0, MaxVersionLen}}
\* An opcode no command of the protocol uses.
OpcodeOther == 153
\* Opcodes a notification may carry.
DeviceOpcodes == {FU_PXI_DEVICE_CMD_FW_WRITE, FU_PXI_DEVICE_CMD_FW_UPGRADE,
                  FU_PXI_DEVICE_CMD_FW_OBJECT_CREATE, OpcodeOther}
\* enum ota_spec_check_result, the values a device may report
OTA_PROCESS_ILLEGAL == 3
OTA_RECONNECT == 4
SpecCheckResults == {OTA_SPEC_CHECK_OK, OTA_PROCESS_ILLEGAL, OTA_RECONNECT}

(* ---- pure functions ---- *)

\* Mutant: the sum is kept in a type that is wide enough not to wrap.
Add16_nowrap(x, y) == x + y

\* checksum += (guint16) buf[idx];  with guint16 checksum
Add16(x, y) == (x + y) % U16

\* guint16 checksum = 0; for (...) checksum += (guint16) buf[idx];
RECURSIVE fu_pxi_device_calculate_checksum(_)
fu_pxi_device_calculate_checksum(buf) ==
    IF Len(buf) = 0 THEN 0
    ELSE Add16(fu_pxi_device_calculate_checksum(SubSeq(buf, 1, Len(buf) - 1)),
               buf[Len(buf)])

\* Greedy split of data into chunks of at most packet_sz bytes, addressed
\* from addr_start (fu-chunk.c, not part of the plugin; page_sz is always 0
\* here).  packet_sz is 1 or more: the model has no device that reports an
\* mtu_size of 0.
RECURSIVE fu_chunk_array_new(_, _, _)
fu_chunk_array_new(data, addr_start, packet_sz) ==
    IF Len(data) = 0 THEN << >>
    ELSE LET n == IF Len(data) < packet_sz THEN Len(data) ELSE packet_sz
         IN  <<[address |-> addr_start, data |-> SubSeq(data, 1, n)]>>
             \o fu_chunk_array_new(SubSeq(data, n + 1, Len(data)),
                                   addr_start + n, packet_sz)

\* Mutant: the objects are addressed from 1.
Objects_from_one(image) == fu_chunk_array_new(image, 1, ObjectSizeMax)

\* fu_chunk_array_new_from_bytes (fw, 0x0, 0x0, FU_PXI_DEVICE_OBJECT_SIZE_MAX)
Objects(image) == fu_chunk_array_new(image, 0, ObjectSizeMax)

\* for (guint i = 0; i < self->offset; i++)
\*     checksum_tmp += fu_pxi_device_calculate_checksum (chk->data, chk->data_sz);
RECURSIVE ResumeChecksum(_, _)
ResumeChecksum(chunks, n) ==
    IF n = 0 THEN 0
    ELSE (ResumeChecksum(chunks, n - 1)
          + fu_pxi_device_calculate_checksum(chunks[n].data)) % U16

\* Mutant: the loop over the resumed objects stops one object early.
fu_pxi_device_check_support_resume_short(image, off, sum) ==
    LET chunks == Objects(image)
    IN  IF off > Len(chunks) THEN "offset_invalid"
        ELSE IF sum # ResumeChecksum(chunks, IF off > 0 THEN off - 1 ELSE 0)
             THEN "checksum_mismatch"
        ELSE "none"

\* Mutant: the checksum is not compared at all.
fu_pxi_device_check_support_resume_any(image, off, sum) ==
    IF off > Len(Objects(image)) THEN "offset_invalid" ELSE "none"

\* Mutant: offset 0 is accepted without looking at the checksum.
fu_pxi_device_check_support_resume_zero(image, off, sum) ==
    LET chunks == Objects(image)
    IN  IF off > Len(chunks) THEN "offset_invalid"
        ELSE IF off # 0 /\ sum # ResumeChecksum(chunks, off) THEN "checksum_mismatch"
        ELSE "none"

\* The result of fu_pxi_device_check_support_resume for a device that
\* reported the resume position (off, sum): "none" for TRUE, else the error.
fu_pxi_device_check_support_resume(image, off, sum) ==
    LET chunks == Objects(image)
    IN  IF off > Len(chunks) THEN "offset_invalid"
        ELSE IF sum # ResumeChecksum(chunks, off) THEN "checksum_mismatch"
        ELSE "none"

VARIABLES
    fw,                 \* the default image of the firmware
    pc,                 \* position in fu_pxi_device_write_firmware
    offset,             \* self->offset
    checksum,           \* self->checksum
    max_object_size,    \* self->max_object_size
    mtu_size,           \* self->mtu_size
    prn_threshold,      \* self->prn_threshold
    spec_check_result,  \* self->spec_check_result
    error_local,        \* outcome of the resume check, "unset" before it
    i,                  \* object index of the loop in write_firmware
    pkt,                \* packet index of the loop in write_chunk
    prn,                \* packets written since the last notification
    checksum_device,    \* checksum of the last notification read in write_chunk
    result,             \* "running", "ok" (TRUE returned) or "error" (FALSE)
    err,                \* which error made the attempt fail
    log,                \* history: transport operations issued
    acked,              \* history: objects for which write_chunk returned TRUE
    reported_offset,    \* history: the resume offset of the Init-New response
    progress,           \* history: last (current, total) progress reported
    split,              \* checksum runs: fw is a followed by b, a has split bytes
    call,               \* checksum runs: the buffer summed, "a", "b", "ab" or "done"
    buf_idx,            \* idx of the running fu_pxi_device_calculate_checksum
    buf_sum,            \* checksum of the running fu_pxi_device_calculate_checksum
    ret                 \* checksum runs: the values returned so far

self == <<offset, checksum, max_object_size, mtu_size, prn_threshold,
          spec_check_result>>
locals == <<i, pkt, prn, checksum_device>>
summing == <<split, call, buf_idx, buf_sum, ret>>
vars == <<fw, pc, offset, checksum, max_object_size, mtu_size, prn_threshold,
          spec_check_result, error_local, i, pkt, prn, checksum_device,
          result, err, log, acked, reported_offset, progress, summing>>

\* the state before fu_pxi_device_write_firmware is called for the image fw
NotStarted ==
    /\ pc = "ota_init"
    /\ offset = 0
    /\ checksum = 0
    /\ max_object_size = 0
    /\ mtu_size = 0
    /\ prn_threshold = 0
    /\ spec_check_result = 0
    /\ error_local = "unset"
    /\ i = 0
    /\ pkt = 0
    /\ prn = 0
    /\ checksum_device = 0
    /\ result = "running"
    /\ err = "none"
    /\ log = << >>
    /\ acked = {}
    /\ reported_offset = -1
    /\ progress = << >>

Init ==
    /\ fw \in Images
    /\ NotStarted
    /\ split = 0
    /\ call = "done"
    /\ buf_idx = 0
    /\ buf_sum = 0
    /\ ret = << >>

(* ---- helpers of the actions ---- *)

\* One transport operation, as the log keeps it.
Op(kind, cmd, ok, arg) == [op |-> kind, cmd |-> cmd, ok |-> ok, arg |-> arg]

\* return FALSE, with the error that was set
Fail(kind) ==
    /\ result' = "error"
    /\ err' = kind
    /\ pc' = "done"

\* Mutant: when the loop has ended after some objects, the resume check is
\* run again.
LoopTarget_restart(idx, len) ==
    IF idx < len THEN "object_create"
    ELSE IF idx > 0 THEN "check_resume" ELSE "fw_upgrade"

\* Mutant: the loop leaves out the last object.
LoopTarget_skip_last(idx, len) ==
    IF idx + 1 < len THEN "object_create" ELSE "fw_upgrade"

\* for (guint i = ...; i < chunks->len; i++): the loop runs again, or the
\* function goes on to the upgrade command
LoopTarget(idx, len) == IF idx < len THEN "object_create" ELSE "fw_upgrade"

\* guint8 fw_version[10] = { 0x0 }; as it is declared
ZeroVersionTag == [k \in 1..FwVersionLen |-> 0]

\* fu_memcpy_safe (fw_version, sizeof(fw_version), 0x0, version,
\*                 strlen (version), 0x0, strlen (version), error)
\* for a version that fits: the characters, then the zeros of the declaration
VersionTag(v) == [k \in 1..FwVersionLen |-> IF k <= Len(v) THEN v[k] ELSE 0]

(* ---- actions ---- *)

\* Mutant: a failed write is sent again.
fu_pxi_device_fw_ota_init_retry ==
    /\ pc = "ota_init"
    /\ \E ok \in BOOLEAN :
        /\ log' = Append(log, Op("pwrite", FU_PXI_DEVICE_CMD_FW_OTA_INIT, ok, << >>))
        /\ pc' = IF ok \/ Len(log) > 0 THEN "init_new_set" ELSE "ota_init"
        /\ UNCHANGED <<result, err>>
    /\ UNCHANGED <<fw, summing, self, error_local, locals, acked, reported_offset, progress>>

\* fu_pxi_device_fw_ota_init: one write, nothing is read back
fu_pxi_device_fw_ota_init ==
    /\ pc = "ota_init"
    /\ \E ok \in BOOLEAN :
        /\ log' = Append(log, Op("pwrite", FU_PXI_DEVICE_CMD_FW_OTA_INIT, ok, << >>))
        /\ IF ok
           THEN pc' = "init_new_set" /\ UNCHANGED <<result, err>>
           ELSE Fail("transport")
    /\ UNCHANGED <<fw, summing, self, error_local, locals, acked, reported_offset, progress>>

\* fu_pxi_device_fw_ota_init_new, the request: length of the image, OTA
\* setting and the fw_version array as it was declared, sent as a feature
\* report; the function is given bufsz only, not the firmware
fu_pxi_device_fw_ota_init_new_set_feature ==
    /\ pc = "init_new_set"
    /\ \E ok \in BOOLEAN :
        /\ log' = Append(log, Op("set_feature", FU_PXI_DEVICE_CMD_FW_OTA_INIT_NEW,
                                 ok, <<Len(fw), OTA_MAIN_FW, ZeroVersionTag>>))
        /\ IF ok
           THEN pc' = "init_new_get" /\ UNCHANGED <<result, err>>
           ELSE Fail("transport")
    /\ UNCHANGED <<fw, summing, self, error_local, locals, acked, reported_offset, progress>>

\* Mutant: only one of the failure codes is refused.
SpecCheckPasses_reconnect(r) == r # OTA_PROCESS_ILLEGAL

\* if (self->spec_check_result != OTA_SPEC_CHECK_OK) return FALSE;
SpecCheckPasses(r) == r = OTA_SPEC_CHECK_OK

\* fu_pxi_device_fw_ota_init_new, the response: the shared state is decoded
\* from the feature report, then the spec check result is tested
fu_pxi_device_fw_ota_init_new_get_feature ==
    /\ pc = "init_new_get"
    /\ \E ok \in BOOLEAN :
        /\ log' = Append(log, Op("get_feature", FU_PXI_DEVICE_CMD_FW_OTA_INIT_NEW,
                                 ok, << >>))
        /\ IF ok
           THEN \E off \in 0..MaxOffset, sum \in DeviceChecksums,
                   mos \in {ObjectSizeMax - 1, ObjectSizeMax},
                   mtu \in MtuSizes, thr \in PrnThresholds,
                   scr \in SpecCheckResults :
                  /\ offset' = off
                  /\ checksum' = sum
                  /\ max_object_size' = mos
                  /\ mtu_size' = mtu
                  /\ prn_threshold' = thr
                  /\ spec_check_result' = scr
                  /\ reported_offset' = off
                  /\ IF SpecCheckPasses(scr)
                     THEN pc' = "check_resume" /\ UNCHANGED <<result, err>>
                     ELSE Fail("spec_check")
           ELSE Fail("transport") /\ UNCHANGED <<self, reported_offset>>
    /\ UNCHANGED <<fw, summing, error_local, locals, acked, progress>>

\* Mutant: the fallback forgets self->offset = 0.
ResumeFallback_keep_offset(e, off, sum) ==
    IF e # "none" THEN <<off, 0>> ELSE <<off, sum>>

\* Mutant: the fallback forgets self->checksum = 0.
ResumeFallback_keep_checksum(e, off, sum) ==
    IF e # "none" THEN <<0, sum>> ELSE <<off, sum>>

\* if (!fu_pxi_device_check_support_resume (...)) { self->offset = 0;
\*                                                  self->checksum = 0; }
\* as <<offset, checksum>> after it
ResumeFallback(e, off, sum) == IF e # "none" THEN <<0, 0>> ELSE <<off, sum>>

\* fu_pxi_device_write_firmware from the resume check to the head of the
\* loop over the objects; no transport operation
fu_pxi_device_write_firmware_prepare ==
    /\ pc = "check_resume"
    /\ LET e == fu_pxi_device_check_support_resume(fw, offset, checksum)
           r == ResumeFallback(e, offset, checksum)
       IN  /\ error_local' = e
           /\ offset' = r[1]
           /\ checksum' = r[2]
           /\ i' = r[1]
           /\ pc' = LoopTarget(r[1], Len(Objects(fw)))
    /\ UNCHANGED <<fw, summing, max_object_size, mtu_size, prn_threshold,
                   spec_check_result, pkt, prn, checksum_device, result, err,
                   log, acked, reported_offset, progress>>

\* the object the loop of write_firmware is at
chk == Objects(fw)[i + 1]
\* Mutant: the object is written as one packet, whatever the mtu_size.
Packets_whole == fu_chunk_array_new(chk.data, chk.address, ObjectSizeMax)

\* fu_chunk_array_new (chk->data, chk->data_sz, chk->address, 0x0, self->mtu_size)
Packets == fu_chunk_array_new(chk.data, chk.address, mtu_size)

\* fu_pxi_device_fw_object_create, the request: address and size of the object
fu_pxi_device_fw_object_create_write ==
    /\ pc = "object_create"
    /\ \E ok \in BOOLEAN :
        /\ log' = Append(log, Op("pwrite", FU_PXI_DEVICE_CMD_FW_OBJECT_CREATE, ok,
                                 <<chk.address, Len(chk.data)>>))
        /\ IF ok
           THEN pc' = "object_create_notify" /\ UNCHANGED <<result, err>>
           ELSE Fail("transport")
    /\ UNCHANGED <<fw, summing, self, error_local, locals, acked, reported_offset, progress>>

\* Mutant: the opcode of a write notification is accepted as well.
ObjectCreateOpcodeOk_any(opcode) ==
    opcode \in {FU_PXI_DEVICE_CMD_FW_OBJECT_CREATE, FU_PXI_DEVICE_CMD_FW_WRITE}

\* if (opcode != FU_PXI_DEVICE_CMD_FW_OBJECT_CREATE) return FALSE;
ObjectCreateOpcodeOk(opcode) == opcode = FU_PXI_DEVICE_CMD_FW_OBJECT_CREATE

\* fu_pxi_device_fw_object_create, the notification; on success write_chunk
\* splits the object into packets and enters its loop
fu_pxi_device_fw_object_create_notify ==
    /\ pc = "object_create_notify"
    /\ \E ok \in BOOLEAN, opcode \in DeviceOpcodes :
        /\ log' = Append(log, Op("pread", IF ok THEN opcode ELSE 0, ok, << >>))
        /\ IF ~ok THEN Fail("transport") /\ UNCHANGED <<pkt, prn, checksum_device>>
           ELSE IF ~ObjectCreateOpcodeOk(opcode)
                THEN Fail("opcode") /\ UNCHANGED <<pkt, prn, checksum_device>>
           ELSE /\ pkt' = 0
                /\ prn' = 0
                /\ checksum_device' = 0
                /\ pc' = "write_payload"
                /\ UNCHANGED <<result, err>>
    /\ UNCHANGED <<fw, summing, self, error_local, i, acked, reported_offset, progress>>

\* Mutant: > instead of >=.
NeedNotify_gt(p, thr, idx, len) == p > thr \/ idx = len - 1

\* if (prn >= self->prn_threshold || i == chunks->len - 1)
NeedNotify(p, thr, idx, len) == p >= thr \/ idx = len - 1

\* fu_pxi_device_write_payload for packet pkt, then prn++ and the test
\* whether a notification is awaited
fu_pxi_device_write_payload ==
    /\ pc = "write_payload"
    /\ \E ok \in BOOLEAN :
        /\ log' = Append(log, Op("pwrite_payload", 0, ok, Packets[pkt + 1].data))
        /\ IF ~ok THEN Fail("transport") /\ UNCHANGED <<pkt, prn>>
           ELSE /\ prn' = prn + 1
                /\ IF NeedNotify(prn + 1, prn_threshold, pkt, Len(Packets))
                   THEN pc' = "write_notify" /\ pkt' = pkt
                   ELSE pc' = "write_payload" /\ pkt' = pkt + 1
                /\ UNCHANGED <<result, err>>
    /\ UNCHANGED <<fw, summing, self, error_local, i, checksum_device, acked,
                   reported_offset, progress>>

\* Mutant: the accumulation is left out.
ChecksumAccum_none(sum, data) == sum

\* Mutant: = instead of +=.
ChecksumAccum_assign(sum, data) == fu_pxi_device_calculate_checksum(data)

\* self->checksum += checksum;  (guint16)
ChecksumAccum(sum, data) == (sum + fu_pxi_device_calculate_checksum(data)) % U16

\* Mutant: the opcode of an Object-Create notification is accepted as well.
FwWriteOpcodeOk_any(opcode) ==
    opcode \in {FU_PXI_DEVICE_CMD_FW_WRITE, FU_PXI_DEVICE_CMD_FW_OBJECT_CREATE}

\* if (opcode != FU_PXI_DEVICE_CMD_FW_WRITE) return FALSE;
FwWriteOpcodeOk(opcode) == opcode = FU_PXI_DEVICE_CMD_FW_WRITE

\* the notification awaited in the loop of write_chunk; after the last
\* packet the loop ends, the checksum is accumulated and compared, and
\* write_firmware reports progress and moves to the next object.
\* checksum_device takes the checksum of every notification read, but the
\* code compares only the one read after the last packet: the log keeps
\* that one as the argument of the read, and none for the reads before it.
fu_pxi_device_write_chunk_notify ==
    /\ pc = "write_notify"
    /\ \E ok \in BOOLEAN, opcode \in DeviceOpcodes, sum \in DeviceChecksums :
        LET last == pkt = Len(Packets) - 1
        IN
        /\ log' = Append(log, Op("pread", IF ok THEN opcode ELSE 0, ok,
                                 IF ok /\ last THEN <<sum>> ELSE << >>))
        /\ IF ~ok
           THEN /\ Fail("transport")
                /\ UNCHANGED <<checksum, i, pkt, prn, checksum_device, acked, progress>>
           ELSE IF ~FwWriteOpcodeOk(opcode)
           THEN /\ Fail("opcode")
                /\ UNCHANGED <<checksum, i, pkt, prn, checksum_device, acked, progress>>
           ELSE IF ~last
           THEN /\ checksum_device' = sum
                /\ prn' = 0
                /\ pkt' = pkt + 1
                /\ pc' = "write_payload"
                /\ UNCHANGED <<checksum, i, result, err, acked, progress>>
           ELSE /\ checksum_device' = sum
                /\ prn' = 0
                /\ pkt' = pkt + 1
                /\ checksum' = ChecksumAccum(checksum, chk.data)
                /\ IF sum # checksum'
                   THEN Fail("checksum") /\ UNCHANGED <<i, acked, progress>>
                   ELSE /\ acked' = acked \cup {i}
                        /\ progress' = <<i, Len(Objects(fw))>>
                        /\ i' = i + 1
                        /\ pc' = LoopTarget(i + 1, Len(Objects(fw)))
                        /\ UNCHANGED <<result, err>>
    /\ UNCHANGED <<fw, summing, offset, max_object_size, mtu_size, prn_threshold,
                   spec_check_result, error_local, reported_offset>>

\* fu_pxi_device_fw_upgrade, the request: length and checksum of the whole
\* image and the version tag.  fu_firmware_get_version is called here for
\* the first time in the attempt: the version of the firmware is an input
\* that nothing before this step has read, and it is drawn here.
fu_pxi_device_fw_upgrade_write ==
    /\ pc = "fw_upgrade"
    /\ \E ok \in BOOLEAN, version \in Versions :
        /\ log' = Append(log, Op("pwrite", FU_PXI_DEVICE_CMD_FW_UPGRADE, ok,
                                 <<Len(fw), fu_pxi_device_calculate_checksum(fw),
                                   VersionTag(version)>>))
        /\ IF ok
           THEN pc' = "fw_upgrade_notify" /\ UNCHANGED <<result, err>>
           ELSE Fail("transport")
    /\ UNCHANGED <<fw, summing, self, error_local, locals, acked, reported_offset, progress>>

\* Mutant: the opcode of a write notification is accepted as well.
FwUpgradeOpcodeOk_any(opcode) ==
    opcode \in {FU_PXI_DEVICE_CMD_FW_UPGRADE, FU_PXI_DEVICE_CMD_FW_WRITE}

\* if (opcode != FU_PXI_DEVICE_CMD_FW_UPGRADE) return FALSE;
FwUpgradeOpcodeOk(opcode) == opcode = FU_PXI_DEVICE_CMD_FW_UPGRADE

\* fu_pxi_device_fw_upgrade, the notification
fu_pxi_device_fw_upgrade_notify ==
    /\ pc = "fw_upgrade_notify"
    /\ \E ok \in BOOLEAN, opcode \in DeviceOpcodes :
        /\ log' = Append(log, Op("pread", IF ok THEN opcode ELSE 0, ok, << >>))
        /\ IF ~ok THEN Fail("transport")
           ELSE IF ~FwUpgradeOpcodeOk(opcode) THEN Fail("opcode")
           ELSE pc' = "reset" /\ UNCHANGED <<result, err>>
    /\ UNCHANGED <<fw, summing, self, error_local, locals, acked, reported_offset, progress>>

\* fu_pxi_device_reset: one write, its outcome is the outcome of the attempt
fu_pxi_device_reset ==
    /\ pc = "reset"
    /\ \E ok \in BOOLEAN :
        /\ log' = Append(log, Op("pwrite", FU_PXI_DEVICE_CMD_FW_MCU_RESET, ok, << >>))
        /\ IF ok
           THEN result' = "ok" /\ pc' = "done" /\ UNCHANGED err
           ELSE Fail("transport")
    /\ UNCHANGED <<fw, summing, self, error_local, locals, acked, reported_offset, progress>>

Next ==
    \/ fu_pxi_device_fw_ota_init
    \/ fu_pxi_device_fw_ota_init_new_set_feature
    \/ fu_pxi_device_fw_ota_init_new_get_feature
    \/ fu_pxi_device_write_firmware_prepare
    \/ fu_pxi_device_fw_object_create_write
    \/ fu_pxi_device_fw_object_create_notify
    \/ fu_pxi_device_write_payload
    \/ fu_pxi_device_write_chunk_notify
    \/ fu_pxi_device_fw_upgrade_write
    \/ fu_pxi_device_fw_upgrade_notify
    \/ fu_pxi_device_reset

Spec == Init /\ [][Next]_vars

\* The images of every length whose bytes are all 1: whether the attempt
\* returns depends on the lengths and on which comparisons succeed, and
\* with these images every comparison of the code can go either way.
ImagesOfOnes == {[k \in 1..n |-> 1] : n \in 0..MaxLen}
InitFair ==
    /\ Init
    /\ fw \in ImagesOfOnes

\* Every transport operation returns, and the code between two of them is
\* sequential: a step that can be taken is taken.
SpecFair == InitFair /\ [][Next]_vars /\ WF_vars(Next)

(* ---- fu_pxi_device_calculate_checksum, iteration by iteration ---- *)

\* The buffers summed: all short ones over the byte values 0, 1 and ByteMax,
\* and long ones whose sum reaches or exceeds the largest 16-bit value.
Fill(n) == [k \in 1..n |-> ByteMax]
SumImages ==
    UNION {[1..n -> Bytes \cup {ByteMax}] : n \in 0..MaxLen}
        \cup {Fill(n) : n \in (MaxRun - 1)..MaxRun}
\* Where a buffer is split into a and b: anywhere if it is short, at the
\* ends and in the middle if it is long.
Splits(image) ==
    IF Len(image) <= MaxLen THEN 0..Len(image)
    ELSE {0, 1, Len(image) \div 2, Len(image) - 1, Len(image)}

\* fu_pxi_device_calculate_checksum is called for a, then for b, then for
\* the whole of fw
InitSum ==
    /\ fw \in SumImages
    /\ NotStarted
    /\ split \in Splits(fw)
    /\ call = "a"
    /\ buf_idx = 0
    /\ buf_sum = 0
    /\ ret = << >>

\* buf and bufsz of the running call, as the first byte's position in fw
BufStart == IF call = "b" THEN split ELSE 0
BufSz == IF call = "a" THEN split ELSE IF call = "b" THEN Len(fw) - split ELSE Len(fw)

\* one iteration of the loop: checksum += (guint16) buf[idx]
fu_pxi_device_calculate_checksum_loop ==
    /\ call # "done"
    /\ buf_idx < BufSz
    /\ buf_sum' = Add16(buf_sum, fw[BufStart + buf_idx + 1])
    /\ buf_idx' = buf_idx + 1
    /\ UNCHANGED <<fw, self, error_local, locals, pc, result, err, log, acked,
                   reported_offset, progress, split, call, ret>>

\* return checksum; the next call starts with guint16 checksum = 0
fu_pxi_device_calculate_checksum_return ==
    /\ call # "done"
    /\ buf_idx = BufSz
    /\ ret' = Append(ret, buf_sum)
    /\ call' = IF call = "a" THEN "b" ELSE IF call = "b" THEN "ab" ELSE "done"
    /\ buf_idx' = 0
    /\ buf_sum' = 0
    /\ UNCHANGED <<fw, self, error_local, locals, pc, result, err, log, acked,
                   reported_offset, progress, split>>

NextSum ==
    \/ fu_pxi_device_calculate_checksum_loop
    \/ fu_pxi_device_calculate_checksum_return

SpecChecksum == InitSum /\ [][NextSum]_vars

(* ---- reading the log ---- *)

Last(seq) == seq[Len(seq)]
NumObjects == Len(Objects(fw))
LogIdx == 1..Len(log)
\* positions at which the command cmd was sent
Sent(cmd) ==
    {k \in LogIdx : log[k].op \in {"pwrite", "set_feature"} /\ log[k].cmd = cmd}
PayloadWrites == {k \in LogIdx : log[k].op = "pwrite_payload"}
ObjectCreates == Sent(FU_PXI_DEVICE_CMD_FW_OBJECT_CREATE)
\* commands of the transfer and of the finalization
TransferCmds ==
    ObjectCreates \cup PayloadWrites \cup Sent(FU_PXI_DEVICE_CMD_FW_UPGRADE)
        \cup Sent(FU_PXI_DEVICE_CMD_FW_MCU_RESET)
IsCreate(e) == e.op = "pwrite" /\ e.cmd = FU_PXI_DEVICE_CMD_FW_OBJECT_CREATE
IsUpgrade(e) == e.op = "pwrite" /\ e.cmd = FU_PXI_DEVICE_CMD_FW_UPGRADE
IsReset(e) == e.op = "pwrite" /\ e.cmd = FU_PXI_DEVICE_CMD_FW_MCU_RESET
\* the Object-Create commands of the log, in the order sent
Creates == SelectSeq(log, IsCreate)
\* the position of the successful read of the Init-New response, if any
InitNewResponses == {k \in LogIdx : log[k].op = "get_feature" /\ log[k].ok}
\* the phase a request (an entry of the log that is no notification read)
\* belongs to, as its rank in init, init-new, objects, upgrade, reset
PhaseRank(e) ==
    IF e.op \in {"set_feature", "get_feature"} THEN 2
    ELSE IF e.op = "pwrite_payload" THEN 3
    ELSE IF e.cmd = FU_PXI_DEVICE_CMD_FW_OTA_INIT THEN 1
    ELSE IF e.cmd = FU_PXI_DEVICE_CMD_FW_OBJECT_CREATE THEN 3
    ELSE IF e.cmd = FU_PXI_DEVICE_CMD_FW_UPGRADE THEN 4
    ELSE 5
IsRequest(e) == e.op # "pread"
\* the requests of the log, in the order sent
Requests == SelectSeq(log, IsRequest)
\* the object index an Object-Create command announces
CreatedIndex(e) == e.arg[1] \div ObjectSizeMax
\* the resume check has run and nothing was sent since
JustChecked == error_local # "unset" /\ Len(log) > 0 /\ Last(log).op = "get_feature"

(* ---- claims ---- *)

\* C1: the requests of one attempt are sent in the order Init, Init-New
\* (request, then response), object rounds, Upgrade, Reset, each of Init,
\* Init-New, Upgrade and Reset once at most; Init-New only after a
\* successful Init write, Object-Create and Upgrade only after Init-New
\* succeeded, Upgrade only when every object from the start offset on was
\* acknowledged, Reset only after a successful Upgrade and its notification.
C1_PhaseOrder ==
    LET req == Requests
        n == Len(req)
    IN  /\ \A k \in 1..(n - 1) :
              \/ PhaseRank(req[k]) < PhaseRank(req[k + 1])
              \/ PhaseRank(req[k]) = 3 /\ PhaseRank(req[k + 1]) = 3
              \/ req[k].op = "set_feature" /\ req[k + 1].op = "get_feature"
        /\ n >= 1 => PhaseRank(req[1]) = 1
        /\ n >= 2 => (req[1].ok /\ req[2].op = "set_feature")
        /\ n >= 3 => (req[2].ok /\ req[3].op = "get_feature")
        /\ n >= 4 => (req[3].ok /\ spec_check_result = OTA_SPEC_CHECK_OK)
        /\ \A k \in 1..n :
              /\ IsUpgrade(req[k]) =>
                    /\ k >= 4
                    /\ error_local # "unset"
                    /\ acked = {m \in 0..(NumObjects - 1) : m >= offset}
              /\ IsReset(req[k]) =>
                    /\ k = n /\ k >= 5
                    /\ IsUpgrade(req[k - 1]) /\ req[k - 1].ok
                    /\ IsUpgrade(log[Len(log) - 2])
                    /\ log[Len(log) - 1].op = "pread" /\ log[Len(log) - 1].ok

\* a complete attempt that went through two object rounds
C1_Witness ==
    /\ result = "ok"
    /\ NumObjects = 2
    /\ acked = {0, 1}
    /\ Cardinality(ObjectCreates) = 2

C3_SpecCheckFailedStops ==
    \A k \in InitNewResponses :
        spec_check_result # OTA_SPEC_CHECK_OK
            => /\ k = Len(log)
               /\ result = "error"
               /\ err = "spec_check"
               /\ TransferCmds = {}
               /\ error_local = "unset"

\* the device answered process-illegal
C3_Witness ==
    /\ InitNewResponses # {}
    /\ spec_check_result = OTA_PROCESS_ILLEGAL
    /\ pc = "done"

\* C4: an offset within range with a checksum that differs from the local
\* one does not fail the attempt: offset and checksum are 0 when the loop
\* starts, the objects are created in order from object 0, and the Upgrade
\* command is sent only when all of them were acknowledged.
C4_ChecksumMismatchRestarts ==
    (error_local # "unset" /\ reported_offset <= NumObjects /\ error_local # "none")
        => /\ error_local = "checksum_mismatch"
           /\ offset = 0
           /\ JustChecked =>
                 /\ checksum = 0
                 /\ i = 0
                 /\ result = "running"
                 /\ pc = IF NumObjects > 0 THEN "object_create" ELSE "fw_upgrade"
           /\ LET cr == Creates
              IN  \A n \in 1..Len(cr) : CreatedIndex(cr[n]) = n - 1
           /\ Sent(FU_PXI_DEVICE_CMD_FW_UPGRADE) # {}
                 => acked = 0..(NumObjects - 1)

\* the device reported one object done with a checksum that is not the
\* local one, and both objects of the image were transferred
C4_Witness ==
    /\ reported_offset = 1
    /\ error_local = "checksum_mismatch"
    /\ NumObjects = 2
    /\ acked = {0, 1}
    /\ Sent(FU_PXI_DEVICE_CMD_FW_UPGRADE) # {}

\* C5: when the device reports every object done, with the checksum of the
\* whole image, the resume check leads straight to the Upgrade command:
\* nothing is sent by the step, and the next operation is the Upgrade write.
C5_Step ==
    /\ (pc = "check_resume" /\ offset = NumObjects
            /\ checksum = fu_pxi_device_calculate_checksum(fw))
        => (pc' = "fw_upgrade" /\ log' = log /\ result' = "running" /\ acked' = {})
    /\ pc = "fw_upgrade"
        => /\ Len(log') = Len(log) + 1
           /\ SubSeq(log', 1, Len(log)) = log
           /\ Last(log').op = "pwrite"
           /\ Last(log').cmd = FU_PXI_DEVICE_CMD_FW_UPGRADE
C5_FullResumeSkipsTransfer == [][C5_Step]_vars

\* every object was reported done and the Upgrade command follows Init-New
C5_Witness ==
    /\ reported_offset = NumObjects
    /\ NumObjects = 2
    /\ fu_pxi_device_calculate_checksum(Objects(fw)[2].data) > 0
    /\ error_local = "none"
    /\ ObjectCreates = {} /\ PayloadWrites = {}
    /\ \E k \in Sent(FU_PXI_DEVICE_CMD_FW_UPGRADE) : log[k - 1].op = "get_feature"

\* C6 (as stated): with a reported resume offset of 0 the resume check
\* succeeds whatever checksum the device reported, and the checksum is 0.
C6_Original ==
    (error_local # "unset" /\ reported_offset = 0)
        => (error_local = "none" /\ (JustChecked => checksum = 0))

\* C6 (amended): with a reported resume offset of 0 the resume check succeeds
\* exactly when the reported checksum is 0 and fails with the checksum error
\* otherwise; either way the loop starts at object 0 with checksum 0.
C6_Step ==
    (pc = "check_resume" /\ offset = 0)
        => /\ (error_local' = "none") <=> (checksum = 0)
           /\ error_local' \in {"none", "checksum_mismatch"}
           /\ checksum' = 0
           /\ offset' = 0
           /\ i' = 0
           /\ result' = "running"
           /\ log' = log
C6_ZeroOffsetResume == [][C6_Step]_vars

\* offset 0 was reported with a checksum other than 0: the check has failed
C6_Witness ==
    /\ reported_offset = 0
    /\ error_local = "checksum_mismatch"
    /\ JustChecked
    /\ NumObjects = 2
    /\ checksum = 0

\* the number of payload writes in a row that end at position k of the log
RECURSIVE RunLen(_)
RunLen(k) ==
    IF k = 0 THEN 0
    ELSE IF log[k].op # "pwrite_payload" THEN 0
    ELSE 1 + RunLen(k - 1)
\* the position of the Object-Create command the operation at position k
\* belongs to
RECURSIVE CreateBefore(_)
CreateBefore(k) == IF IsCreate(log[k]) THEN k ELSE CreateBefore(k - 1)
\* the payload bytes written at positions h+1..k
RECURSIVE PayloadBytes(_, _)
PayloadBytes(h, k) ==
    IF k <= h THEN 0
    ELSE PayloadBytes(h, k - 1)
         + (IF log[k].op = "pwrite_payload" THEN Len(log[k].arg) ELSE 0)
\* the payload written at position k completes its object
IsLastPacket(k) ==
    LET h == CreateBefore(k) IN PayloadBytes(h, k) = log[h].arg[2]
\* a notification is awaited right after the payload write at position k
AwaitedAfter(k) ==
    IF k < Len(log) THEN log[k + 1].op = "pread" ELSE pc = "write_notify"

\* C7: after a packet write that succeeded a notification is awaited exactly
\* when the packets written since the last await number prn_threshold or
\* more, or the packet completes the object; with a threshold of 1 after
\* every packet; and with a threshold of 1 or more no more than
\* prn_threshold packets are ever written in a row.  The counter of the code
\* is the number of packets written since the last await.
C7_PrnFlowControl ==
    /\ \A k \in PayloadWrites :
          log[k].ok =>
            /\ AwaitedAfter(k) <=> (RunLen(k) >= prn_threshold \/ IsLastPacket(k))
            /\ prn_threshold >= 1 => RunLen(k) <= prn_threshold
            /\ prn_threshold = 1 => AwaitedAfter(k)
    /\ pc = "write_payload" => prn = RunLen(Len(log))

\* an object of three packets with a threshold of 2: notifications after the
\* second packet (threshold) and after the third (end of the object)
C7_Witness ==
    /\ prn_threshold = 2
    /\ mtu_size = 1
    /\ 0 \in acked
    /\ \E k \in ObjectCreates :
          /\ log[k].arg = <<0, 3>>
          /\ Len(log) >= k + 6
          /\ log[k + 1].op = "pread"
          /\ log[k + 2].op = "pwrite_payload" /\ log[k + 3].op = "pwrite_payload"
          /\ log[k + 4].op = "pread"
          /\ log[k + 5].op = "pwrite_payload"
          /\ log[k + 6].op = "pread"

\* C8: the step that reads the notification after the last packet of object
\* i acknowledges the object exactly when the read succeeded with opcode
\* 0x17 and the checksum (checksum before the object + checksum of the
\* object's bytes) mod 65536; otherwise the attempt ends there with an
\* error, the checksum error if only the checksum differs.  Objects are
\* acknowledged by no other step, and nothing is sent after a failure.
C8_Step ==
    /\ (pc = "write_notify" /\ pkt = Len(Packets) - 1) =>
          LET e == Last(log')
              expected == (checksum + fu_pxi_device_calculate_checksum(chk.data)) % U16
              good == /\ e.ok
                      /\ e.cmd = FU_PXI_DEVICE_CMD_FW_WRITE
                      /\ e.arg = <<expected>>
          IN  /\ e.op = "pread"
              /\ (i \in acked') <=> good
              /\ good => result' = "running"
              /\ ~good => (result' = "error" /\ pc' = "done")
              /\ (e.ok /\ e.cmd = FU_PXI_DEVICE_CMD_FW_WRITE /\ e.arg # <<expected>>)
                    => err' = "checksum"
    /\ acked' # acked => (pc = "write_notify" /\ pkt = Len(Packets) - 1)
    /\ result = "error" => log' = log
C8_ObjectAcknowledged == [][C8_Step]_vars

\* the second object was acknowledged on top of a checksum that was not 0
C8_Witness ==
    /\ NumObjects = 2
    /\ 1 \in acked
    /\ fu_pxi_device_calculate_checksum(Objects(fw)[1].data) > 0
    /\ fu_pxi_device_calculate_checksum(Objects(fw)[2].data) > 0
    /\ checksum = fu_pxi_device_calculate_checksum(fw)

\* C9: a notification read after an Object-Create command with another
\* opcode than 0x25 is the last operation of the attempt, which failed with
\* the opcode error; no payload follows the Object-Create command.
C9_ObjectCreateOpcode ==
    \A k \in LogIdx :
        (/\ log[k].op = "pread" /\ log[k].ok
         /\ IsCreate(log[k - 1])
         /\ log[k].cmd # FU_PXI_DEVICE_CMD_FW_OBJECT_CREATE)
            => /\ k = Len(log)
               /\ result = "error"
               /\ err = "opcode"
               /\ \A p \in k..Len(log) : log[p].op # "pwrite_payload"

\* the notification after an Object-Create command carried opcode 0x99
C9_Witness ==
    /\ Len(log) > 1
    /\ (Len(log) - 1) \in ObjectCreates
    /\ Last(log).op = "pread" /\ Last(log).ok
    /\ Last(log).cmd = OpcodeOther
    /\ err = "opcode"

\* a command: a request with an opcode
IsCommand(e) == e.op \in {"pwrite", "set_feature"}
\* the opcode the notification read at position k has to carry
ExpectedOpcode(k) ==
    IF log[k - 1].op = "pwrite_payload" THEN FU_PXI_DEVICE_CMD_FW_WRITE
    ELSE log[k - 1].cmd
\* the checksum of the image up to the object that the notification read at
\* position k completes
ExpectedChecksum(k) ==
    ResumeChecksum(Objects(fw), CreatedIndex(log[CreateBefore(k)]) + 1)

\* C10: a transport operation that failed, a notification with an
\* unexpected opcode, a final notification of an object with a wrong
\* checksum and a failed spec check are each the last operation of the
\* attempt, which ended with the matching error; no command is sent twice.
C10_FatalEndsAttempt ==
    /\ \A k \in LogIdx :
          /\ ~log[k].ok
                => (k = Len(log) /\ result = "error" /\ err = "transport")
          /\ (log[k].op = "pread" /\ log[k].ok /\ log[k].cmd # ExpectedOpcode(k))
                => (k = Len(log) /\ result = "error" /\ err = "opcode")
          /\ (/\ log[k].op = "pread" /\ log[k].ok
              /\ log[k].cmd = ExpectedOpcode(k)
              /\ log[k].arg # << >>
              /\ log[k].arg # <<ExpectedChecksum(k)>>)
                => (k = Len(log) /\ result = "error" /\ err = "checksum")
          /\ (log[k].op = "get_feature" /\ log[k].ok
              /\ spec_check_result # OTA_SPEC_CHECK_OK)
                => (k = Len(log) /\ result = "error" /\ err = "spec_check")
    /\ result = "error" => pc = "done"
    /\ LET cmds == SelectSeq(log, IsCommand)
       IN  \A h, k \in 1..Len(cmds) :
              (cmds[h].cmd = cmds[k].cmd /\ cmds[h].arg = cmds[k].arg) => h = k

\* the read of a notification failed in the middle of the second object
C10_Witness ==
    /\ 0 \in acked
    /\ Len(log) > 1
    /\ Last(log).op = "pread" /\ ~Last(log).ok
    /\ log[Len(log) - 1].op = "pwrite_payload"
    /\ result = "error"
    /\ err = "transport"

\* C11: a Reset command is in the log only right after a notification read
\* with opcode 0x18 that itself follows the Upgrade command; a notification
\* read after the Upgrade command with another opcode ends the attempt with
\* the opcode error and no Reset; the Reset write is the last operation (no
\* notification is read after it) and the attempt returns TRUE exactly when
\* that write succeeded.
C11_ResetAfterUpgradeAck ==
    /\ \A k \in LogIdx :
          /\ IsReset(log[k]) =>
                /\ k >= 3
                /\ IsUpgrade(log[k - 2]) /\ log[k - 2].ok
                /\ log[k - 1].op = "pread" /\ log[k - 1].ok
                /\ log[k - 1].cmd = FU_PXI_DEVICE_CMD_FW_UPGRADE
                /\ k = Len(log)
                /\ pc = "done"
                /\ (result = "ok") <=> log[k].ok
                /\ ~log[k].ok => (result = "error" /\ err = "transport")
          /\ (/\ log[k].op = "pread" /\ log[k].ok
              /\ k > 1 /\ IsUpgrade(log[k - 1])
              /\ log[k].cmd # FU_PXI_DEVICE_CMD_FW_UPGRADE)
                => (k = Len(log) /\ result = "error" /\ err = "opcode")
    /\ result = "ok" => (Len(log) > 0 /\ IsReset(Last(log)))
    /\ pc = "reset" => (/\ Last(log).op = "pread"
                        /\ Last(log).cmd = FU_PXI_DEVICE_CMD_FW_UPGRADE)

\* the Upgrade command was acknowledged with 0x18 and the Reset write failed
C11_Witness ==
    /\ Len(log) >= 3
    /\ IsReset(Last(log)) /\ ~Last(log).ok
    /\ log[Len(log) - 1].cmd = FU_PXI_DEVICE_CMD_FW_UPGRADE
    /\ log[Len(log) - 1].op = "pread"
    /\ result = "error"

\* C12 (as stated): the size every Object-Create command announces is no
\* larger than the max_object_size of the Init-New response.
C12_Original ==
    \A k \in ObjectCreates : log[k].arg[2] <= max_object_size

\* the payload written at positions h+1..k of the log, in the order written
RECURSIVE PayloadData(_, _)
PayloadData(h, k) ==
    IF k <= h THEN << >>
    ELSE PayloadData(h, k - 1)
         \o (IF log[k].op = "pwrite_payload" THEN log[k].arg ELSE << >>)

\* C13: once the Upgrade command was sent in an attempt that started the
\* transfer at object 0, there is one Object-Create command per object of
\* the image; the first announces address 0, each next one the address at
\* which the one before ended (so the addresses ascend strictly), each but
\* the last the size of the object cap, the last one the rest of the image;
\* and the payload written, in the order written, is the image.
C13_ObjectsCoverImage ==
    (error_local # "unset" /\ offset = 0 /\ Sent(FU_PXI_DEVICE_CMD_FW_UPGRADE) # {})
        => LET cr == Creates
               n == Len(cr)
           IN  /\ n = (Len(fw) + ObjectSizeMax - 1) \div ObjectSizeMax
               /\ \A m \in 1..n :
                     /\ cr[m].arg[2] >= 1
                     /\ m = 1 => cr[m].arg[1] = 0
                     /\ m > 1 => /\ cr[m].arg[1] = cr[m - 1].arg[1] + cr[m - 1].arg[2]
                                 /\ cr[m].arg[1] > cr[m - 1].arg[1]
                     /\ m < n => cr[m].arg[2] = ObjectSizeMax
                     /\ m = n => cr[m].arg[1] + cr[m].arg[2] = Len(fw)
               /\ PayloadData(0, Len(log)) = fw

\* an image of two objects, the second shorter than the cap, was transferred
\* from object 0 and the attempt completed
C13_Witness ==
    /\ result = "ok"
    /\ offset = 0
    /\ Len(fw) = ObjectSizeMax + 1
    /\ Len(Creates) = 2
    /\ Creates[2].arg = <<ObjectSizeMax, 1>>

\* C14: every payload written carries 1 to mtu_size bytes; what was written
\* for an object so far is the bytes of the image from the object's address
\* on, no more than the object has; a packet is shorter than mtu_size only
\* if it completes the object; and the checksum of an object is read and
\* compared only when all of its bytes were written.
C14_PacketsCoverObject ==
    \A k \in LogIdx :
        /\ log[k].op = "pwrite_payload" =>
              LET h == CreateBefore(k)
                  d == PayloadData(h, k)
                  address == log[h].arg[1]
                  size == log[h].arg[2]
              IN  /\ Len(log[k].arg) \in 1..mtu_size
                  /\ Len(d) <= size
                  /\ d = SubSeq(fw, address + 1, address + Len(d))
                  /\ Len(log[k].arg) < mtu_size => Len(d) = size
        /\ (log[k].op = "pread" /\ log[k].arg # << >>) =>
              LET h == CreateBefore(k)
              IN  PayloadData(h, k)
                    = SubSeq(fw, log[h].arg[1] + 1, log[h].arg[1] + log[h].arg[2])

\* an object of the size of the cap was written as a packet of mtu_size
\* bytes and a shorter one, and acknowledged
C14_Witness ==
    /\ 0 \in acked
    /\ mtu_size = ObjectSizeMax - 1
    /\ \E p, q \in PayloadWrites :
          /\ p < q
          /\ log[CreateBefore(q)].arg = <<0, ObjectSizeMax>>
          /\ CreateBefore(p) = CreateBefore(q)
          /\ Len(log[p].arg) = mtu_size
          /\ Len(log[q].arg) = 1

\* the parts a and b of fw in a checksum run
BufA == SubSeq(fw, 1, split)
BufB == SubSeq(fw, split + 1, Len(fw))

\* C15: when fu_pxi_device_calculate_checksum has returned for a, for b and
\* for a followed by b, the third value is (the first + the second) mod
\* 65536, and every value is a 16-bit one.  So the accumulation of the
\* transfer loop, self->checksum += checksum of b on top of the checksum of
\* a, gives the checksum of the whole, wrapped; and for buffers of a few
\* bytes the values are those of the checksum operator of the model, and the
\* sum over the objects that the resume check computes is the checksum of
\* the whole.
C15_ChecksumAdditive ==
    /\ buf_sum \in 0..(U16 - 1)
    /\ \A k \in 1..Len(ret) : ret[k] \in 0..(U16 - 1)
    /\ Len(ret) = 3 =>
          /\ ret[3] = (ret[1] + ret[2]) % U16
          /\ Len(BufB) <= MaxLen => ChecksumAccum(ret[1], BufB) = ret[3]
          /\ Len(fw) <= MaxLen =>
                /\ ret[1] = fu_pxi_device_calculate_checksum(BufA)
                /\ ret[2] = fu_pxi_device_calculate_checksum(BufB)
                /\ ret[3] = fu_pxi_device_calculate_checksum(fw)
                /\ ret[3] = ResumeChecksum(Objects(fw), Len(Objects(fw)))

\* the checksums of a and b add up to more than 16 bits hold, and the
\* checksum of a followed by b has wrapped
C15_Witness ==
    /\ Len(ret) = 3
    /\ ret[1] > 0 /\ ret[2] > 0
    /\ ret[1] + ret[2] >= U16
    /\ ret[3] = ret[1] + ret[2] - U16

\* C16 (as stated): the progress last reported is (objects completed,
\* objects of the image), the objects completed being those skipped by the
\* resume and those acknowledged so far; after the last acknowledgement the
\* two numbers are equal.
C16_Original ==
    progress # << >>
        => /\ progress = <<offset + Cardinality(acked), NumObjects>>
           /\ pc \in {"fw_upgrade", "fw_upgrade_notify", "reset"}
                 => progress[1] = progress[2]

IsInitNew(e) == e.op = "set_feature" /\ e.cmd = FU_PXI_DEVICE_CMD_FW_OTA_INIT_NEW

\* C17 (as stated): the Init-New request carries the length of the image,
\* an OTA target selector and the version tag of the firmware, which is the
\* tag the Upgrade command of the attempt carries.
C17_Original ==
    \A k \in LogIdx :
        IsInitNew(log[k]) =>
            /\ log[k].arg[1] = Len(fw)
            /\ log[k].arg[2] \in {OTA_MAIN_FW, OTA_MAIN_FW + 1, OTA_MAIN_FW + 2}
            /\ Len(log[k].arg[3]) = FwVersionLen
            /\ \A h \in LogIdx :
                  IsUpgrade(log[h]) => log[k].arg[3] = log[h].arg[3]

\* a notification was read after a packet that did not complete its object,
\* and write_chunk goes on with the next packet
AfterIntermediateNotify ==
    /\ pc = "write_payload"
    /\ Len(log) > 1
    /\ Last(log).op = "pread"
    /\ log[Len(log) - 1].op = "pwrite_payload"
\* the checksum of the image up to the last byte written
ChecksumSoFar ==
    Add16(checksum,
          fu_pxi_device_calculate_checksum(
              PayloadData(CreateBefore(Len(log)), Len(log))))

\* C18 (as stated): a notification that reports another checksum than that
\* of the bytes written so far ends the attempt at that read, so the
\* transfer goes on after a notification in the middle of an object only
\* if the checksum it carried was the expected one.
C18_Original ==
    AfterIntermediateNotify => checksum_device = ChecksumSoFar

\* C18 (amended): the read of a notification in the middle of an object
\* ends the attempt exactly when the read fails or the opcode is not 0x17;
\* otherwise the next packet is written, whatever checksum the notification
\* carried, and self->checksum and the acknowledged objects are as before.
\* The checksum is compared at the read after the last packet of the
\* object: there another checksum than the expected one ends the attempt
\* with the checksum error, which no other step gives.
C18_Step ==
    /\ (pc = "write_notify" /\ pkt < Len(Packets) - 1) =>
          LET e == Last(log')
              good == e.ok /\ e.cmd = FU_PXI_DEVICE_CMD_FW_WRITE
          IN  /\ e.op = "pread"
              /\ good => /\ pc' = "write_payload"
                         /\ result' = "running"
                         /\ pkt' = pkt + 1
                         /\ checksum' = checksum
                         /\ acked' = acked
              /\ ~good => (result' = "error" /\ err' # "checksum" /\ pc' = "done")
    /\ (pc = "write_notify" /\ pkt = Len(Packets) - 1) =>
          LET e == Last(log')
          IN  (/\ e.ok /\ e.cmd = FU_PXI_DEVICE_CMD_FW_WRITE
               /\ checksum_device'
                    # Add16(checksum, fu_pxi_device_calculate_checksum(chk.data)))
                => (result' = "error" /\ err' = "checksum" /\ pc' = "done")
    /\ (err' = "checksum" /\ err # "checksum")
          => (pc = "write_notify" /\ pkt = Len(Packets) - 1)
C18_MismatchDetectedAtObjectEnd == [][C18_Step]_vars

\* a notification in the middle of an object carried a checksum larger than
\* that of the whole image, and the next packet is about to be written
C18_Witness ==
    /\ AfterIntermediateNotify
    /\ pkt > 0
    /\ checksum_device > fu_pxi_device_calculate_checksum(fw)
    /\ result = "running"

\* C19 (as stated): when the attempt has ended with the checksum error,
\* self->checksum is the checksum of the objects before the one that failed.
C19_Original ==
    err = "checksum" => checksum = ResumeChecksum(Objects(fw), i)

\* C19 (amended): the read after the last packet of object i, if it succeeds
\* with opcode 0x17, adds the checksum of the object to self->checksum
\* before the comparison, so also when the comparison then fails; no other
\* step from the first Object-Create command on changes self->checksum.
C19_Step ==
    LET final == /\ pc = "write_notify"
                 /\ pkt = Len(Packets) - 1
                 /\ Last(log').ok
                 /\ Last(log').cmd = FU_PXI_DEVICE_CMD_FW_WRITE
    IN  /\ final =>
              /\ checksum' = Add16(checksum, fu_pxi_device_calculate_checksum(chk.data))
              /\ err' = "checksum" => (i' = i /\ acked' = acked /\ result' = "error")
        /\ (~final /\ pc \notin {"ota_init", "init_new_set", "init_new_get",
                                  "check_resume"})
              => checksum' = checksum
C19_ChecksumAddedBeforeCompare == [][C19_Step]_vars

\* the second object failed its comparison, and self->checksum is the
\* checksum of both objects
C19_Witness ==
    /\ err = "checksum"
    /\ i = 1
    /\ acked = {0}
    /\ fu_pxi_device_calculate_checksum(Objects(fw)[2].data) > 0
    /\ checksum = fu_pxi_device_calculate_checksum(fw)
    /\ checksum # ResumeChecksum(Objects(fw), i)

\* C20: when the transfer loop has ended and the Upgrade command is next,
\* and from then on, self->checksum is the checksum of the whole image,
\* which is the checksum the Upgrade command carries.
C20_UpgradeChecksum ==
    /\ pc = "fw_upgrade" => checksum = fu_pxi_device_calculate_checksum(fw)
    /\ LET up == SelectSeq(log, IsUpgrade)
       IN  Len(up) > 0 =>
              /\ checksum = up[1].arg[2]
              /\ up[1].arg[2] \in 0..(U16 - 1)

\* the device reported one object done, with its checksum, the resume check
\* passed, the second object was transferred and the Upgrade command sent
C20_Witness ==
    /\ reported_offset = 1
    /\ error_local = "none"
    /\ acked = {1}
    /\ fu_pxi_device_calculate_checksum(Objects(fw)[1].data) > 0
    /\ fu_pxi_device_calculate_checksum(Objects(fw)[2].data) > 0
    /\ Sent(FU_PXI_DEVICE_CMD_FW_UPGRADE) # {}

\* every Object-Create command of the log announces another object than the
\* ones before it, in ascending order, so there are no more of them than
\* the image has objects
CreatedOnce ==
    LET cr == Creates
    IN  /\ Len(cr) <= NumObjects
        /\ \A n \in 1..Len(cr) :
              /\ CreatedIndex(cr[n]) \in 0..(NumObjects - 1)
              /\ n > 1 => CreatedIndex(cr[n - 1]) < CreatedIndex(cr[n])
\* fu_pxi_device_write_firmware has returned TRUE or FALSE
Returned == pc = "done" /\ result \in {"ok", "error"}

\* the most transport operations an attempt on the image fw issues: Init,
\* the two of Init-New, the two of Upgrade and Reset, two for the creation
\* of every object, and a write and a read for every byte at most
MaxOperations == 6 + 2 * NumObjects + 2 * Len(fw)

\* C21: when every transport operation returns, fu_pxi_device_write_firmware
\* returns in the end, with TRUE or FALSE, and stays returned; all along,
\* every object is created once at most and in ascending order, the loop
\* index does not exceed the number of objects, the packet index does not
\* exceed the number of packets of the object, and the number of transport
\* operations is bounded by the size of the image.
C21_Terminates ==
    /\ <>[]Returned
    /\ [](/\ CreatedOnce
          /\ i <= NumObjects
          /\ pc \in {"write_payload", "write_notify"} => pkt < Len(Packets)
          /\ Len(log) <= MaxOperations)

\* an image of two objects was written packet by packet, each packet
\* followed by a notification, and the attempt returned TRUE
C21_Witness ==
    /\ Returned
    /\ result = "ok"
    /\ mtu_size = 1
    /\ prn_threshold = 1
    /\ Len(fw) = MaxLen
    /\ Len(Creates) = NumObjects
    /\ Cardinality(PayloadWrites) = MaxLen
====
